---------------------------- MODULE Spec2Model ----------------------------
(***************************************************************************)
(* A model of pyglottolog's languoid layer: the glottocode pattern, the    *)
(* Languoid constructors and LFF serialisation (languoids.py), the tree    *)
(* readers with their ancestor cache, glottocode allocation, and the       *)
(* recode command (cli.py).                                                *)
(*                                                                         *)
(* Text is modelled as a sequence of one-character strings, so that        *)
(* splitting, joining, stripping and pattern matching are computed the way *)
(* the Python code computes them.  A path is a sequence of such names.     *)
(***************************************************************************)
EXTENDS Integers, Sequences, FiniteSets, TLC

VARIABLES
    sid,          \* the text handed to Languoid.id_pattern.match
    accepted,     \* the verdict of the last match ("unchecked" before it)
    glottocodes,  \* the persisted glottocodes.json store: alpha -> number
    code,         \* what glottocode_for_name returned last
    lang,         \* the Languoid object under construction / serialisation
    res,          \* the result of the last Languoid operation
    tree,         \* the on-disk tree: directory path -> its files
    nodes,        \* the default-argument dict of Languoid.from_ini
    ret,          \* what the last tree operation returned
    changes       \* the number of changes made to the tree so far

vars == <<sid, accepted, glottocodes, code, lang, res, tree, nodes, ret, changes>>

---------------------------------------------------------------------------
(* Characters and text helpers.                                            *)

Lower == {"a","b","c","d","e","f","g","h","i","j","k","l","m",
          "n","o","p","q","r","s","t","u","v","w","x","y","z"}
Upper == {"A","B","C","D","E","F","G","H","I","J","K","L","M",
          "N","O","P","Q","R","S","T","U","V","W","X","Y","Z"}
Digit == {"0","1","2","3","4","5","6","7","8","9"}

LowerOf(c) ==
    CASE c = "A" -> "a" [] c = "B" -> "b" [] c = "C" -> "c" [] c = "D" -> "d"
      [] c = "E" -> "e" [] c = "F" -> "f" [] c = "G" -> "g" [] c = "H" -> "h"
      [] c = "I" -> "i" [] c = "J" -> "j" [] c = "K" -> "k" [] c = "L" -> "l"
      [] c = "M" -> "m" [] c = "N" -> "n" [] c = "O" -> "o" [] c = "P" -> "p"
      [] c = "Q" -> "q" [] c = "R" -> "r" [] c = "S" -> "s" [] c = "T" -> "t"
      [] c = "U" -> "u" [] c = "V" -> "v" [] c = "W" -> "w" [] c = "X" -> "x"
      [] c = "Y" -> "y" [] c = "Z" -> "z" [] OTHER -> c

Take(s, n) == SubSeq(s, 1, IF Len(s) < n THEN Len(s) ELSE n)
StartsWith(s, p) == Len(s) >= Len(p) /\ SubSeq(s, 1, Len(p)) = p
EndsWith(s, p) == Len(s) >= Len(p) /\ SubSeq(s, Len(s) - Len(p) + 1, Len(s)) = p

RECURSIVE Reverse(_)
Reverse(s) == IF s = <<>> THEN <<>> ELSE Append(Reverse(Tail(s)), Head(s))

\* Decimal text of a natural number, as Python's '%s' % num.
RECURSIVE Str(_)
Str(n) ==
    LET d == <<"0","1","2","3","4","5","6","7","8","9">>[(n % 10) + 1]
    IN  IF n < 10 THEN <<d>> ELSE Append(Str(n \div 10), d)

---------------------------------------------------------------------------
(* ID_REGEX and Languoid.id_pattern.                                       *)

AlphaLen == 4
NumLen == 4
NOCODE == <<"N","O","C","O","D","E">>

\* The offsets at which the group ([a-z0-9]{4}[0-9]{4}|NOCODE(_[A-Za-z0-9\-]+)?)
\* can end when matched at the start of s (every way the backtracking
\* matcher can settle the alternation, the optional group and the +).
IdGroupEnds(s) ==
    LET n == AlphaLen + NumLen
        normal ==
            IF /\ Len(s) >= n
               /\ \A i \in 1..AlphaLen : s[i] \in Lower \cup Digit
               /\ \A i \in (AlphaLen + 1)..n : s[i] \in Digit
            THEN {n} ELSE {}
        k == Len(NOCODE)
        nocode ==
            IF StartsWith(s, NOCODE)
            THEN {k} \cup
                 { k + 1 + j : j \in
                     { j \in 1..(Len(s) - k - 1) :
                         /\ s[k + 1] = "_"
                         /\ \A i \in (k + 2)..(k + 1 + j) :
                                s[i] \in Upper \cup Lower \cup Digit \cup {"-"} } }
            ELSE {}
    IN  normal \cup nocode

\* Python's '$' (no MULTILINE): the end of the text, or just before a
\* line break that ends the text.
AtDollar(s, k) ==
    \/ k = Len(s)
    \/ k = Len(s) - 1 /\ s[Len(s)] = "\n"

\* Languoid.id_pattern.match(s) is not None
IdPatternMatch(s) == \E k \in IdGroupEnds(s) : AtDollar(s, k)

---------------------------------------------------------------------------
(* glottocode_for_name.                                                    *)

FirstNum == 1233

\* clldutils.misc.slug: lower-case, keep only [a-z0-9].
RECURSIVE Slug(_)
Slug(s) ==
    IF s = <<>> THEN <<>>
    ELSE LET c == LowerOf(Head(s))
         IN  IF c \in Lower \cup Digit THEN <<c>> \o Slug(Tail(s)) ELSE Slug(Tail(s))

\* while len(alpha) < 4: alpha += alpha[-1]
RECURSIVE PadAlpha(_)
PadAlpha(a) == IF Len(a) < AlphaLen THEN PadAlpha(Append(a, a[Len(a)])) ELSE a

GcAlpha(name) == PadAlpha(Take(Slug(name), AlphaLen))

GcNum(store, alpha) ==
    (IF alpha \in DOMAIN store THEN store[alpha] ELSE FirstNum) + 1

\* the store after the call
GcStore(store, name, dry_run) ==
    LET alpha == GcAlpha(name)
    IN  IF dry_run THEN store
        ELSE [a \in DOMAIN store \cup {alpha} |->
                 IF a = alpha THEN GcNum(store, alpha) ELSE store[a]]

\* the code returned: '%s%s' % (alpha, num)
GcCode(store, name) == GcAlpha(name) \o Str(GcNum(store, GcAlpha(name)))

---------------------------------------------------------------------------
(* Python text operations used by the LFF code.                            *)

\* str.find(sep, from): the first index >= from at which sep occurs, or 0.
RECURSIVE FindSep(_, _, _)
FindSep(s, sep, from) ==
    IF from + Len(sep) - 1 > Len(s) THEN 0
    ELSE IF SubSeq(s, from, from + Len(sep) - 1) = sep THEN from
    ELSE FindSep(s, sep, from + 1)

\* s.split(sep, 1)
SplitOnce(s, sep) ==
    LET i == FindSep(s, sep, 1)
    IN  IF i = 0 THEN <<s>>
        ELSE <<SubSeq(s, 1, i - 1), SubSeq(s, i + Len(sep), Len(s))>>

\* s.split(sep)
RECURSIVE SplitAll(_, _)
SplitAll(s, sep) ==
    LET i == FindSep(s, sep, 1)
    IN  IF i = 0 THEN <<s>>
        ELSE <<SubSeq(s, 1, i - 1)>> \o SplitAll(SubSeq(s, i + Len(sep), Len(s)), sep)

\* sep.join(parts)
RECURSIVE Join(_, _)
Join(parts, sep) ==
    IF parts = <<>> THEN <<>>
    ELSE IF Len(parts) = 1 THEN parts[1]
    ELSE parts[1] \o sep \o Join(Tail(parts), sep)

Whitespace == {" ", "\t", "\n", "\r"}

RECURSIVE LStrip(_)
LStrip(s) == IF s # <<>> /\ Head(s) \in Whitespace THEN LStrip(Tail(s)) ELSE s

\* s.strip()
Strip(s) == Reverse(LStrip(Reverse(LStrip(s))))

\* s[:-1]
DropLast(s) == SubSeq(s, 1, Len(s) - 1)

---------------------------------------------------------------------------
(* class Level, class Languoid.                                            *)

Level == {"family", "language", "dialect"}

\* A value a descriptor does not hold (Python's None).
None == <<"None">>

\* directory=None: no path has this value.
NoDir == <<>>

\* TREE = languoids_path('tree'), as the path below the data directory.
TREE == << <<"t","r","e","e">> >>

NoLanguoid == [kind |-> "None"]
Raised(e) == [kind |-> e]
IsLanguoid(l) == l.kind = "Languoid"

\* Languoid.__init__(cfg, lineage, directory); directory = NoDir when the
\* caller passes none.
LanguoidInit(cfg, lineage, directory) ==
    IF \E i \in 1..Len(lineage) :
           ~IdPatternMatch(lineage[i].id) \/ lineage[i].level \notin Level
    THEN Raised("AssertionError")
    ELSE [kind |-> "Languoid", cfg |-> cfg, lineage |-> lineage,
          dir |-> IF directory # NoDir THEN directory
                  ELSE TREE \o [i \in 1..Len(lineage) |-> lineage[i].id]]

\* cfg.read_dict(dict(core=dict(name=name, glottocode=id)))
CoreCfg(name, id) ==
    [name |-> name, glottocode |-> id, level |-> "unset", iso |-> None,
     classification_status |-> None]

\* Languoid.from_name_id_level(name, id, level) without extra attributes
FromNameIdLevelOf(name, id, level) ==
    LET l == LanguoidInit(CoreCfg(name, id), <<>>, NoDir)
    IN  [l EXCEPT !.cfg.level = level]

\* The level from_lff gives lineage segment i (counted from 0, as enumerate does).
LffSegLevelFamily(level, i) == "family"

LffSegLevel(level, i) ==
    IF level = "dialect"
    THEN (IF i = 0 THEN "language" ELSE "dialect")
    ELSE "family"

\* One component of path.split('], '), parsed to a lineage entry; <<>> when
\* comp.split(' [', 1) does not unpack into two.
LffSegment(comp, level, i) ==
    LET c == IF EndsWith(comp, <<"]">>) THEN DropLast(comp) ELSE comp
        p == SplitOnce(c, <<" ", "[">>)
    IN  IF Len(p) # 2 THEN <<>>
        ELSE <<[name |-> p[1], id |-> p[2], level |-> LffSegLevel(level, i)]>>

\* Languoid.from_lff(path, name_and_codes, level); path = None or text.
FromLffOf(path, name_and_codes, level) ==
    LET nc == SplitOnce(name_and_codes, <<"[">>)
    IN  IF Len(nc) # 2 THEN Raised("ValueError")
        ELSE
        LET lname == Strip(nc[1])
            gi == SplitAll(DropLast(nc[2]), <<"]", "[">>)
        IN  IF Len(gi) # 2 THEN Raised("ValueError")
            ELSE
            LET comps == IF path = None \/ path = <<>> THEN <<>>
                         ELSE SplitAll(path, <<"]", ",", " ">>)
                segs == [i \in 1..Len(comps) |-> LffSegment(comps[i], level, i - 1)]
            IN  IF \E i \in 1..Len(segs) : segs[i] = <<>> THEN Raised("ValueError")
                ELSE
                LET l == LanguoidInit(CoreCfg(lname, gi[1]),
                                      [i \in 1..Len(segs) |-> segs[i][1]], NoDir)
                IN  IF ~IsLanguoid(l) THEN l
                    ELSE [l EXCEPT !.cfg.level = level,
                                   !.cfg.iso = IF gi[2] # <<>> THEN gi[2] ELSE None]

\* takewhile(pred, seq) with pred = (level != family)
RECURSIVE TakeWhileNotFamily(_)
TakeWhileNotFamily(s) ==
    IF s = <<>> \/ s[1].level = "family" THEN <<>>
    ELSE <<s[1]>> \o TakeWhileNotFamily(Tail(s))

RECURSIVE FilterNotFamily(_)
FilterNotFamily(s) ==
    IF s = <<>> THEN <<>>
    ELSE (IF s[1].level = "family" THEN <<>> ELSE <<s[1]>>) \o FilterNotFamily(Tail(s))

\* the lineage lff_group joins
LffGroupLineageFiltered(l) ==
    IF l.cfg.level = "dialect" THEN FilterNotFamily(l.lineage) ELSE l.lineage

LffGroupLineage(l) ==
    IF l.cfg.level = "dialect"
    THEN Reverse(TakeWhileNotFamily(Reverse(l.lineage)))
    ELSE l.lineage

\* '%s [%s]' % (name, id)
NameId(name, id) == name \o <<" ", "[">> \o id \o <<"]">>

IsolateMark == <<"-","i","s","o","l","a","t","e","-">>
Unclassified ==
    <<"E","R","R","O","R"," ","[","-","u","n","c","l","a","s","s","i","f","i","e","d","-","]">>

\* Languoid.lff_group()
LffGroupOf(l) ==
    LET lineage == LffGroupLineage(l)
    IN  IF l.lineage = <<>> THEN NameId(l.cfg.name, IsolateMark)
        ELSE LET r == Join([i \in 1..Len(lineage) |->
                              NameId(lineage[i].name, lineage[i].id)], <<",", " ">>)
             IN  IF r # <<>> THEN r ELSE Unclassified

\* x or ''
OrEmpty(x) == IF x = None THEN <<>> ELSE x

\* Languoid.lff_language()
LffLanguageOf(l) ==
    LET r == <<" ", " ", " ", " ">> \o l.cfg.name \o <<" ", "[">> \o l.cfg.glottocode
             \o <<"]", "[">> \o OrEmpty(l.cfg.iso) \o <<"]">>
    IN  IF OrEmpty(l.cfg.classification_status) # <<>>
        THEN r \o <<" ">> \o l.cfg.classification_status
        ELSE r

---------------------------------------------------------------------------
(* The on-disk tree and its readers.                                       *)
(*                                                                         *)
(* tree maps every existing directory (a path from TREE down) to its       *)
(* files: file name -> descriptor content.  A file name is its stem and    *)
(* its suffix.  The order in which a directory lists its entries is the    *)
(* file system's, so whatever depends on it is a choice over the orders.   *)

IniName(stem) == [stem |-> stem, ext |-> ".ini"]

Put(f, k, v) == [x \in DOMAIN f \cup {k} |-> IF x = k THEN v ELSE f[x]]

DirName(dir) == dir[Len(dir)]
DirParent(dir) == SubSeq(dir, 1, Len(dir) - 1)
IsUnder(p, dir) == Len(p) >= Len(dir) /\ SubSeq(p, 1, Len(dir)) = dir

\* (l.name, l.id, l.level)
Triple(l) == [name |-> l.cfg.name, id |-> l.cfg.glottocode, level |-> l.cfg.level]

Outcome(r, nds) == [res |-> r, nodes |-> nds]

RECURSIVE FromDirOut(_, _, _)
RECURSIVE FromIniOut(_, _, _, _)
RECURSIVE LineageLoop(_, _, _, _, _)

\* The loop of from_ini over directory.parents, at the j-th parent (nearest
\* first), with the lineage gathered so far: the set of ways it can end,
\* each with the cache as the loop left it.
LineageLoop(t, directory, j, nds, acc) ==
    IF j > Len(directory) - 1
    THEN {[err |-> "ok", lineage |-> acc, nodes |-> nds]}
    ELSE
    LET parent == SubSeq(directory, 1, Len(directory) - j)
        id_ == DirName(parent)
    IN  IF id_ = DirName(directory)
        THEN {[err |-> "AssertionError", lineage |-> acc, nodes |-> nds]}
        ELSE IF ~IdPatternMatch(id_)
        THEN {[err |-> "ok", lineage |-> acc, nodes |-> nds]}
        ELSE IF id_ \in DOMAIN nds
        THEN LineageLoop(t, directory, j + 1, nds, Append(acc, nds[id_]))
        ELSE UNION {
            IF o.res.kind = "None"
            THEN {[err |-> "AttributeError", lineage |-> acc, nodes |-> o.nodes]}
            ELSE IF ~IsLanguoid(o.res)
            THEN {[err |-> o.res.kind, lineage |-> acc, nodes |-> o.nodes]}
            ELSE LET n2 == Put(o.nodes, id_, Triple(o.res))
                 IN  LineageLoop(t, directory, j + 1, n2, Append(acc, n2[id_]))
            : o \in FromDirOut(t, parent, nds) }

\* Languoid.from_ini(ini, nodes) for the file f of directory dir.
FromIniOut(t, dir, f, nds) ==
    { IF lo.err # "ok" THEN Outcome(Raised(lo.err), lo.nodes)
      ELSE LET l == LanguoidInit(t[dir][f], Reverse(lo.lineage), dir)
           IN  IF ~IsLanguoid(l) THEN Outcome(l, lo.nodes)
               ELSE Outcome(l, Put(lo.nodes, l.cfg.glottocode, Triple(l)))
      : lo \in LineageLoop(t, dir, 1, nds, <<>>) }

\* Languoid.from_dir(directory, nodes=nds): the first file the directory
\* lists decides.
FromDirOut(t, dir, nds) ==
    IF dir \notin DOMAIN t THEN {Outcome(Raised("OSError"), nds)}
    ELSE IF DOMAIN t[dir] = {} THEN {Outcome(NoLanguoid, nds)}
    ELSE UNION { IF f.ext # ".ini" THEN {Outcome(Raised("AssertionError"), nds)}
                 ELSE FromIniOut(t, dir, f, nds)
                 : f \in DOMAIN t[dir] }

\* The result list of the ancestors property.
AncestorsResultUnreversed(acc) == acc

AncestorsResult(acc) == Reverse(acc)

\* Languoid.ancestors: the loop over self.dir.parents at the j-th parent.
RECURSIVE AncestorsLoop(_, _, _, _, _)
AncestorsLoop(t, dir, j, nds, acc) ==
    IF j > Len(dir) - 1 \/ ~IdPatternMatch(DirName(SubSeq(dir, 1, Len(dir) - j)))
    THEN {Outcome([kind |-> "list", items |-> AncestorsResult(acc)], nds)}
    ELSE UNION {
        IF o.res.kind \notin {"Languoid", "None"} THEN {o}
        ELSE AncestorsLoop(t, dir, j + 1, o.nodes, Append(acc, o.res))
        : o \in FromDirOut(t, SubSeq(dir, 1, Len(dir) - j), nds) }

\* find_languoid(tree, glottocode): the directories walk(mode='dirs') can
\* reach first with that name; none gives None.
FindLanguoidOut(t, glottocode, nds) ==
    LET hits == {d \in DOMAIN t : Len(d) > Len(TREE) /\ DirName(d) = glottocode}
    IN  IF hits = {} THEN {Outcome(NoLanguoid, nds)}
        ELSE UNION {FromDirOut(t, d, nds) : d \in hits}

\* All orders of a finite set.
RECURSIVE Perms(_)
Perms(S) ==
    IF S = {} THEN {<<>>}
    ELSE UNION {{<<x>> \o p : p \in Perms(S \ {x})} : x \in S}

SubDirs(t, dir) == {d \in DOMAIN t : Len(d) = Len(dir) + 1 /\ IsUnder(d, dir)}

\* The orders in which walk(tree, mode='files') can yield the .ini files at
\* and below dir: os.walk top-down, a directory's files, then its
\* subdirectories one after the other.
RECURSIVE WalkOrders(_, _)
WalkOrders(t, dir) ==
    LET inis == {f \in DOMAIN t[dir] : f.ext = ".ini"}
        RECURSIVE Below(_)
        Below(ds) ==
            IF ds = <<>> THEN {<<>>}
            ELSE {a \o b : a \in WalkOrders(t, ds[1]), b \in Below(Tail(ds))}
    IN  UNION { UNION { {[i \in 1..Len(fs) |-> [dir |-> dir, f |-> fs[i]]] \o w
                          : w \in Below(ds)}
                        : ds \in Perms(SubDirs(t, dir)) }
                : fs \in Perms(inis) }

\* walk_tree(tree) consumed to its end (or to the exception that ends it),
\* every from_ini with the default nodes.
RECURSIVE WalkFold(_, _, _, _)
WalkFold(t, order, nds, acc) ==
    IF order = <<>> THEN {[err |-> "ok", items |-> acc, nodes |-> nds]}
    ELSE UNION {
        IF ~IsLanguoid(o.res) THEN {[err |-> o.res.kind, items |-> acc, nodes |-> o.nodes]}
        ELSE WalkFold(t, Tail(order), o.nodes, Append(acc, o.res))
        : o \in FromIniOut(t, order[1].dir, order[1].f, nds) }

WalkTreeOut(t, nds) == UNION {WalkFold(t, w, nds, <<>>) : w \in WalkOrders(t, TREE)}

\* copytree(src, dst) then rmtree(src): every directory at or below src
\* reappears at or below dst with its files.
MoveTree(t, src, dst) ==
    LET moved == {d \in DOMAIN t : IsUnder(d, src)}
        target(d) == dst \o SubSeq(d, Len(src) + 1, Len(d))
    IN  [p \in (DOMAIN t \ moved) \cup {target(d) : d \in moved} |->
            IF p \in DOMAIN t \ moved THEN t[p]
            ELSE t[CHOOSE d \in moved : target(d) = p]]

\* recode(args) for args.args[0] = glottocode: every way the command can
\* end, with the tree, the store and the cache as it leaves them.
RecodeOut(t, store, glottocode, nds) ==
    { IF o.res.kind = "None"
      THEN [tree |-> t, glottocodes |-> store, nodes |-> o.nodes,
            res |-> Raised("ParserError")]
      ELSE IF ~IsLanguoid(o.res)
      THEN [tree |-> t, glottocodes |-> store, nodes |-> o.nodes, res |-> o.res]
      ELSE
      LET l == o.res
          gc == GcCode(store, l.cfg.name)
          store2 == GcStore(store, l.cfg.name, FALSE)
          new_dir == Append(DirParent(l.dir), gc)
      IN  IF Slug(l.cfg.name) = <<>>
          THEN [tree |-> t, glottocodes |-> store, nodes |-> o.nodes,
                res |-> Raised("AssertionError")]
          ELSE IF new_dir \in DOMAIN t
          THEN [tree |-> t, glottocodes |-> store2, nodes |-> o.nodes,
                res |-> Raised("OSError")]
          ELSE [tree |-> [MoveTree(t, l.dir, new_dir) EXCEPT ![new_dir] =
                             Put(@, IniName(gc), [l.cfg EXCEPT !.glottocode = gc])],
                glottocodes |-> store2, nodes |-> o.nodes,
                res |-> [kind |-> "done", old |-> l.dir, new |-> new_dir, gc |-> gc]]
      : o \in FindLanguoidOut(t, glottocode, nds) }

---------------------------------------------------------------------------
(* Bounds and the inputs drawn within them.                                *)

MaxAppend == 2      \* characters appended to a seed text
MaxNum == 10001     \* the allocation counter is followed up to here
StoreHigh == 9997   \* a counter value already persisted when the run starts
MaxLineage == 3     \* ancestors in a lineage / segments in a lineage prefix
MaxChanges == 2     \* changes to the tree (recodes, descriptor edits) in a run

SeqsUpTo(S, n) == UNION {[1..k -> S] : k \in 0..n}

EmptyMap == [x \in {} |-> x]

t_abcd1234 == <<"a","b","c","d","1","2","3","4">>
t_abc1fam1 == <<"a","b","c","1","f","a","m","1">>
t_lang5678 == <<"l","a","n","g","5","6","7","8">>
t_xyz19999 == <<"x","y","z","1","9","9","9","9">>
t_wxyz5678 == <<"w","x","y","z","5","6","7","8">>
t_bare0000 == <<"b","a","r","e","0","0","0","0">>
t_none0000 == <<"n","o","n","e","0","0","0","0">>
t_NOCODE_Foo_1 == <<"N","O","C","O","D","E","_","F","o","o","-","1">>
t_AB1234 == <<"A","B","1","2","3","4">>
t_ProtoFoo == <<"P","r","o","t","o","-","F","o","o">>
t_Lang == <<"L","a","n","g">>
t_Fam == <<"F","a","m">>
t_Foo == <<"F","o","o">>
t_Bar == <<"B","a","r">>
t_Baz == <<"B","a","z">>
t_Qux == <<"Q","u","x">>
t_Fo == <<"F","o">>
t_Fooo_Bar == <<"F","o","o","o"," ","B","a","r">>
t_dashes == <<"-","-">>
t_xyz == <<"x","y","z">>
t_st == <<"s","t">>

IdSeeds ==
    { <<>>, Take(t_abcd1234, 4), Take(t_abcd1234, 7), t_abcd1234, t_AB1234,
      NOCODE, Take(t_NOCODE_Foo_1, 7), t_NOCODE_Foo_1 }
IdAlphabet == {"a", "1", "A", "-", "_", "\n"}
IdInputs == {seed \o ext : seed \in IdSeeds, ext \in SeqsUpTo(IdAlphabet, MaxAppend)}

GcNames == {t_Fo, t_Fooo_Bar, t_dashes}

LffAncestors ==
    { [name |-> t_ProtoFoo, id |-> t_abcd1234], [name |-> t_Lang, id |-> t_lang5678],
      [name |-> t_Fam, id |-> t_abc1fam1] }
LineageEntries ==
    { [name |-> a.name, id |-> a.id, level |-> lv] :
        a \in {b \in LffAncestors : b.id # t_abc1fam1}, lv \in Level }
    \cup {[name |-> t_Fam, id |-> t_abc1fam1, level |-> "family"]}
Cfgs ==
    { [name |-> t_Bar, glottocode |-> t_wxyz5678, level |-> lv, iso |-> iso,
       classification_status |-> st] :
        lv \in Level, iso \in {None, t_xyz}, st \in {None, t_st} }

\* the lineage prefix text of a sequence of (name, id) segments
PathText(segs) ==
    IF segs = <<>> THEN None
    ELSE Join([i \in 1..Len(segs) |-> NameId(segs[i].name, segs[i].id)], <<",", " ">>)
LffPaths == {PathText(segs) : segs \in SeqsUpTo(LffAncestors, MaxLineage)} \cup {t_Lang}
LffRecords ==
    { NameId(t_Bar, t_wxyz5678) \o <<"[">> \o t_xyz \o <<"]">>,
      NameId(t_Bar, t_wxyz5678) \o <<"[", "]">>,
      t_Bar }

Descriptor(name, id, level) == [CoreCfg(name, id) EXCEPT !.level = level]

\* TREE/<fam>/lang5678/xyz19999, each directory with its descriptor, and,
\* when bare, a directory TREE/<fam>/lang5678/bare0000 without one.
StartTree(fam, bare) ==
    LET d1 == Append(TREE, fam)
        d2 == Append(d1, t_lang5678)
        d3 == Append(d2, t_xyz19999)
        d4 == Append(d2, t_bare0000)
    IN  [d \in {TREE, d1, d2, d3} \cup (IF bare THEN {d4} ELSE {}) |->
            IF d = d1 THEN [f \in {IniName(fam)} |-> Descriptor(t_Foo, fam, "family")]
            ELSE IF d = d2
            THEN [f \in {IniName(t_lang5678)} |-> Descriptor(t_Bar, t_lang5678, "language")]
            ELSE IF d = d3
            THEN [f \in {IniName(t_xyz19999)} |-> Descriptor(t_Baz, t_xyz19999, "dialect")]
            ELSE EmptyMap]

---------------------------------------------------------------------------
(* The identifier validator on its own.                                    *)

IdleId == sid = None /\ accepted = "unchecked"
IdleGc == glottocodes = EmptyMap /\ code = NoLanguoid
IdleLff == lang = NoLanguoid /\ res = [op |-> "none"]
IdleTree ==
    /\ tree = EmptyMap /\ nodes = EmptyMap /\ ret = [op |-> "none"]
    /\ changes = 0

InitId ==
    /\ sid \in IdInputs /\ accepted = "unchecked"
    /\ IdleGc /\ IdleLff /\ IdleTree

\* Languoid.id_pattern.match(sid)
Match ==
    /\ accepted = "unchecked"
    /\ accepted' = IF IdPatternMatch(sid) THEN "yes" ELSE "no"
    /\ UNCHANGED <<sid, glottocodes, code, lang, res, tree, nodes, ret, changes>>

NextId == Match
SpecId == InitId /\ [][NextId]_vars

---------------------------------------------------------------------------
(* glottocode allocation on its own.                                       *)

InitGc ==
    /\ glottocodes \in {EmptyMap, [a \in {GcAlpha(t_Fo)} |-> StoreHigh]}
    /\ code = NoLanguoid
    /\ IdleId /\ IdleLff /\ IdleTree

\* glottocode_for_name(name, dry_run)
GlottocodeForName(name, dry_run) ==
    /\ IF Slug(name) = <<>>
       THEN code' = Raised("AssertionError") /\ UNCHANGED glottocodes
       ELSE /\ GcNum(glottocodes, GcAlpha(name)) <= MaxNum
            /\ code' = [kind |-> "code", text |-> GcCode(glottocodes, name)]
            /\ glottocodes' = GcStore(glottocodes, name, dry_run)
    /\ UNCHANGED <<sid, accepted, lang, res, tree, nodes, ret, changes>>

NextGc == \E name \in GcNames, dry_run \in BOOLEAN : GlottocodeForName(name, dry_run)
SpecGc == InitGc /\ [][NextGc]_vars

---------------------------------------------------------------------------
(* Languoid construction and LFF serialisation.                            *)

InitLff == IdleLff /\ IdleId /\ IdleGc /\ IdleTree

LffRest == <<sid, accepted, glottocodes, code, tree, nodes, ret, changes>>

\* Languoid(cfg, lineage)
Construct ==
    /\ lang = NoLanguoid
    /\ \E cfg \in Cfgs, lineage \in SeqsUpTo(LineageEntries, MaxLineage) :
          lang' = LanguoidInit(cfg, lineage, NoDir)
    /\ res' = [op |-> "init"]
    /\ UNCHANGED LffRest

FromNameIdLevel ==
    /\ lang = NoLanguoid
    /\ \E name \in {t_Bar}, id \in {t_wxyz5678}, level \in Level :
          lang' = FromNameIdLevelOf(name, id, level)
    /\ res' = [op |-> "from_name_id_level"]
    /\ UNCHANGED LffRest

FromLff ==
    /\ lang = NoLanguoid
    /\ \E path \in LffPaths, name_and_codes \in LffRecords, level \in Level :
          /\ lang' = FromLffOf(path, name_and_codes, level)
          /\ res' = [op |-> "from_lff", path |-> path, level |-> level]
    /\ UNCHANGED LffRest

LffGroup ==
    /\ IsLanguoid(lang)
    /\ res' = [op |-> "lff_group", out |-> LffGroupOf(lang)]
    /\ UNCHANGED <<lang>> /\ UNCHANGED LffRest

LffLanguage ==
    /\ IsLanguoid(lang)
    /\ res' = [op |-> "lff_language", out |-> LffLanguageOf(lang)]
    /\ UNCHANGED <<lang>> /\ UNCHANGED LffRest

\* The record line written by lff_language, its indentation removed, read
\* back with from_lff at the Languoid's own level.
Reparse ==
    /\ IsLanguoid(lang) /\ res.op = "lff_language"
    /\ res' = [op |-> "reparse", line |-> res.out,
               out |-> FromLffOf(None, LStrip(res.out), lang.cfg.level)]
    /\ UNCHANGED <<lang>> /\ UNCHANGED LffRest

NextLff == Construct \/ FromNameIdLevel \/ FromLff \/ LffGroup \/ LffLanguage \/ Reparse
SpecLff == InitLff /\ [][NextLff]_vars

---------------------------------------------------------------------------
(* The tree on disk: readers, the recode command, and descriptor edits     *)
(* made between calls.                                                     *)

InitTree ==
    /\ \E fam \in {t_abc1fam1, t_abcd1234}, bare \in BOOLEAN : tree = StartTree(fam, bare)
    /\ nodes = EmptyMap /\ ret = [op |-> "none"]
    /\ changes = 0
    /\ glottocodes = EmptyMap /\ code = NoLanguoid
    /\ IdleId /\ IdleLff

TreeRest == <<sid, accepted, code, lang, res>>

\* Languoid.from_dir(dir)
FromDir ==
    /\ \E dir \in DOMAIN tree \ {TREE} : \E o \in FromDirOut(tree, dir, nodes) :
          /\ nodes' = o.nodes
          /\ ret' = [op |-> "from_dir", dir |-> dir, res |-> o.res]
    /\ UNCHANGED <<tree, glottocodes, changes>> /\ UNCHANGED TreeRest

\* Languoid.from_ini(ini) with ini = dir/f
FromIni ==
    /\ \E dir \in DOMAIN tree : \E f \in DOMAIN tree[dir] :
       \E o \in FromIniOut(tree, dir, f, nodes) :
          /\ nodes' = o.nodes
          /\ ret' = [op |-> "from_ini", dir |-> dir, res |-> o.res]
    /\ UNCHANGED <<tree, glottocodes, changes>> /\ UNCHANGED TreeRest

\* list(walk_tree())
WalkTree ==
    /\ \E o \in WalkTreeOut(tree, nodes) :
          /\ nodes' = o.nodes
          /\ ret' = [op |-> "walk_tree", err |-> o.err, items |-> o.items]
    /\ UNCHANGED <<tree, glottocodes, changes>> /\ UNCHANGED TreeRest

\* find_languoid(glottocode=code)
FindLanguoid ==
    /\ \E code_ \in {DirName(d) : d \in DOMAIN tree \ {TREE}} \cup {t_none0000} :
       \E o \in FindLanguoidOut(tree, code_, nodes) :
          /\ nodes' = o.nodes
          /\ ret' = [op |-> "find_languoid", code |-> code_, res |-> o.res]
    /\ UNCHANGED <<tree, glottocodes, changes>> /\ UNCHANGED TreeRest

\* lang.ancestors, for the Languoid find_languoid returned
Ancestors ==
    /\ ret.op = "find_languoid" /\ IsLanguoid(ret.res)
    /\ \E o \in AncestorsLoop(tree, ret.res.dir, 1, nodes, <<>>) :
          /\ nodes' = o.nodes
          /\ ret' = [op |-> "ancestors", lang |-> ret.res, res |-> o.res]
    /\ UNCHANGED <<tree, glottocodes, changes>> /\ UNCHANGED TreeRest

\* glottolog recode <code>
Recode ==
    /\ changes < MaxChanges
    /\ \E code_ \in {DirName(d) : d \in DOMAIN tree \ {TREE}} \cup {t_none0000} :
       \E o \in RecodeOut(tree, glottocodes, code_, nodes) :
          /\ tree' = o.tree
          /\ glottocodes' = o.glottocodes
          /\ nodes' = o.nodes
          /\ ret' = [op |-> "recode", code |-> code_, before |-> tree, res |-> o.res]
    /\ changes' = changes + 1
    /\ UNCHANGED TreeRest

\* A descriptor is edited on disk between calls: the node is renamed, or
\* made a family.
Edit ==
    /\ changes < MaxChanges
    /\ \E dir \in DOMAIN tree : \E f \in DOMAIN tree[dir] :
          \/ /\ tree[dir][f].name # t_Qux
             /\ tree' = [tree EXCEPT ![dir][f].name = t_Qux]
          \/ /\ tree[dir][f].level # "family"
             /\ tree' = [tree EXCEPT ![dir][f].level = "family"]
    /\ ret' = [op |-> "edit"]
    /\ changes' = changes + 1
    /\ UNCHANGED <<nodes, glottocodes>> /\ UNCHANGED TreeRest

NextTree == FromDir \/ FromIni \/ WalkTree \/ Recode \/ Edit
SpecTree == InitTree /\ [][NextTree]_vars

\* Lookup by code and the ancestors of what it finds, on a changing tree.
NextFind == FindLanguoid \/ Ancestors \/ Recode \/ Edit
SpecFind == InitTree /\ [][NextFind]_vars

---------------------------------------------------------------------------
(* The claims.                                                             *)

\* The normal form of a code: 4 characters of [a-z0-9], then 4 digits.
IsNormalCode(s) ==
    /\ Len(s) = 8
    /\ \A i \in 1..4 : s[i] \in Lower \cup Digit
    /\ \A i \in 5..8 : s[i] \in Digit

\* The no-code marker: NOCODE, or NOCODE_ and a non-empty suffix of
\* letters, digits and hyphens.
IsNoCodeMarker(s) ==
    \/ s = NOCODE
    \/ /\ Len(s) >= 8
       /\ Take(s, 7) = Append(NOCODE, "_")
       /\ \A i \in 8..Len(s) : s[i] \in Upper \cup Lower \cup Digit \cup {"-"}

LineageIds(l) == [i \in 1..Len(l.lineage) |-> l.lineage[i].id]

\* C1 as claimed: from_lff gives every lineage segment level family, except
\* that on a dialect record the first segment is a language and every
\* segment after it a family.
C1_LevelsAsClaimed ==
    (res.op = "from_lff" /\ IsLanguoid(lang)) =>
        \A segs \in SeqsUpTo(LffAncestors, MaxLineage) :
            (segs # <<>> /\ res.path = PathText(segs)) =>
                /\ Len(lang.lineage) = Len(segs)
                /\ \A i \in 1..Len(segs) :
                      lang.lineage[i] =
                          [name |-> segs[i].name, id |-> segs[i].id,
                           level |-> IF res.level = "dialect" /\ i = 1
                                     THEN "language" ELSE "family"]

\* C1 amended: from_lff gives every lineage segment level family when the
\* record is a family or a language; on a dialect record the first segment
\* is a language and every segment after it a dialect.
C1_LineageLevels ==
    (res.op = "from_lff" /\ IsLanguoid(lang)) =>
        \A segs \in SeqsUpTo(LffAncestors, MaxLineage) :
            (segs # <<>> /\ res.path = PathText(segs)) =>
                /\ Len(lang.lineage) = Len(segs)
                /\ \A i \in 1..Len(segs) :
                      lang.lineage[i] =
                          [name |-> segs[i].name, id |-> segs[i].id,
                           level |-> IF res.level # "dialect" THEN "family"
                                     ELSE IF i = 1 THEN "language" ELSE "dialect"]

\* A dialect record read with a lineage prefix of two or more segments.
C1_Witness ==
    /\ res.op = "from_lff" /\ IsLanguoid(lang)
    /\ res.level = "dialect" /\ Len(lang.lineage) >= 2

\* C2: a Languoid built without a directory override lies at the ids of its
\* lineage followed by its own id, below the tree root.
C2_DirIsLineageThenId ==
    (res.op \in {"init", "from_name_id_level", "from_lff"} /\ IsLanguoid(lang)) =>
        lang.dir = TREE \o LineageIds(lang) \o <<lang.cfg.glottocode>>

\* C3: from_dir raises for a directory without a descriptor file and for
\* one with two or more files; it returns neither a Languoid nor None.
C3_FromDirFails ==
    (/\ ret.op = "from_dir"
     /\ \/ {f \in DOMAIN tree[ret.dir] : f.ext = ".ini"} = {}
        \/ Cardinality(DOMAIN tree[ret.dir]) >= 2)
    => ret.res.kind \notin {"Languoid", "None"}

\* The index of the nearest enclosing directory of d whose name is no code.
LastNonCode(d) ==
    CHOOSE k \in 1..(Len(d) - 1) :
        /\ ~IdPatternMatch(d[k])
        /\ \A i \in (k + 1)..(Len(d) - 1) : IdPatternMatch(d[i])

xyz19999_dir == TREE \o <<t_abc1fam1, t_lang5678, t_xyz19999>>

\* C4 as claimed: ancestors lists every enclosing directory between the
\* tree root and the node, root-first; two of them for
\* TREE/abc1fam1/lang5678/xyz19999.
C4_EveryEnclosingDir ==
    (ret.op = "ancestors" /\ ret.res.kind = "list") =>
        LET d == ret.lang.dir
        IN  /\ Len(ret.res.items) = Len(d) - 1 - Len(TREE)
            /\ \A j \in 1..Len(ret.res.items) :
                  /\ IsLanguoid(ret.res.items[j])
                  /\ ret.res.items[j].dir = SubSeq(d, 1, Len(TREE) + j)

\* C4 amended: ancestors lists, root-first, the enclosing directories from
\* the node up to, and without, the nearest one whose name is not a code;
\* for TREE/abc1fam1/lang5678/xyz19999 that is lang5678 alone.
C4_AncestorsUpToNonCode ==
    (ret.op = "ancestors" /\ ret.res.kind = "list") =>
        LET d == ret.lang.dir
            k == LastNonCode(d)
        IN  /\ Len(ret.res.items) = Len(d) - 1 - k
            /\ \A j \in 1..Len(ret.res.items) :
                  /\ IsLanguoid(ret.res.items[j])
                  /\ ret.res.items[j].dir = SubSeq(d, 1, k + j)
            /\ d = xyz19999_dir =>
                  /\ Len(ret.res.items) = 1
                  /\ ret.res.items[1].dir = TREE \o <<t_abc1fam1, t_lang5678>>

\* The ancestors of the node found at TREE/abc1fam1/lang5678/xyz19999.
C4_Witness ==
    /\ ret.op = "ancestors" /\ ret.res.kind = "list"
    /\ ret.lang.dir = xyz19999_dir
    /\ Len(ret.res.items) = 1

\* C5: the validator accepts a text exactly when the whole text is a normal
\* code or a no-code marker.
C5_WholeTextOnly ==
    accepted # "unchecked" =>
        (accepted = "yes" <=> (IsNormalCode(sid) \/ IsNoCodeMarker(sid)))

\* The index of the last family-level entry of a lineage, 0 without one.
LastFamily(lineage) ==
    IF \E i \in 1..Len(lineage) : lineage[i].level = "family"
    THEN CHOOSE i \in 1..Len(lineage) :
            /\ lineage[i].level = "family"
            /\ \A j \in (i + 1)..Len(lineage) : lineage[j].level # "family"
    ELSE 0

\* C6: the group label of a dialect with a lineage joins 'Name [id]' of the
\* entries after the last family-level entry, root-first, and is
\* 'ERROR [-unclassified-]' when the immediate parent is a family.
C6_GroupLabel ==
    (/\ res.op = "lff_group" /\ IsLanguoid(lang)
     /\ lang.cfg.level = "dialect" /\ lang.lineage # <<>>)
    => LET n == Len(lang.lineage)
           k == LastFamily(lang.lineage)
       IN  res.out =
               IF lang.lineage[n].level = "family" THEN Unclassified
               ELSE Join([i \in 1..(n - k) |->
                            NameId(lang.lineage[k + i].name, lang.lineage[k + i].id)],
                         <<",", " ">>)

\* The label of a dialect below a family, a language and a dialect.
C6_Witness ==
    /\ res.op = "lff_group" /\ IsLanguoid(lang)
    /\ lang.cfg.level = "dialect" /\ Len(lang.lineage) = 3
    /\ lang.lineage[1].level = "family"
    /\ lang.lineage[2].level = "language"
    /\ lang.lineage[3].level = "dialect"
    /\ res.out # Unclassified

\* C7: the record line of a Languoid whose name holds no '[', read back
\* with from_lff, gives the same name, id and iso code, with or without a
\* classification_status on the line.
C7_RecordRoundTrip ==
    (/\ res.op = "reparse"
     /\ \A i \in 1..Len(lang.cfg.name) : lang.cfg.name[i] # "[")
    => /\ IsLanguoid(res.out)
       /\ res.out.cfg.name = lang.cfg.name
       /\ res.out.cfg.glottocode = lang.cfg.glottocode
       /\ res.out.cfg.iso = lang.cfg.iso

\* The Languoids a walk_tree or from_ini call returned.
Returned ==
    IF ret.op = "walk_tree" THEN {ret.items[i] : i \in 1..Len(ret.items)}
    ELSE IF ret.op = "from_ini" /\ IsLanguoid(ret.res) THEN {ret.res}
    ELSE {}

\* C8: every lineage entry of every Languoid that walk_tree or from_ini
\* returns without an explicit cache is the (name, id, level) a descriptor
\* of that ancestor directory holds at the time of the call.
C8_LineageAsOnDisk ==
    \A l \in Returned : \A i \in 1..Len(l.lineage) :
        LET anc == SubSeq(l.dir, 1, Len(l.dir) - Len(l.lineage) + i - 1)
        IN  \E f \in DOMAIN tree[anc] :
                l.lineage[i] = [name |-> tree[anc][f].name,
                                id |-> tree[anc][f].glottocode,
                                level |-> tree[anc][f].level]

\* C9: after a recode the old directory is gone and the new one holds the
\* node's subdirectories and exactly one descriptor file, <newcode>.ini,
\* whose id is the new code.
C9_RecodeLeavesOneDescriptor ==
    (ret.op = "recode" /\ ret.res.kind = "done") =>
        /\ ret.res.old \notin DOMAIN tree
        /\ ret.res.new \in DOMAIN tree
        /\ \A d \in DOMAIN ret.before :
              IsUnder(d, ret.res.old) =>
                  ret.res.new \o SubSeq(d, Len(ret.res.old) + 1, Len(d)) \in DOMAIN tree
        /\ DOMAIN tree[ret.res.new] = {IniName(ret.res.gc)}
        /\ tree[ret.res.new][IniName(ret.res.gc)].glottocode = ret.res.gc

\* C10: every code glottocode_for_name returns has the normal form.
C10_CodeIsNormal == code.kind = "code" => IsNormalCode(code.text)

=============================================================================
